---- MODULE Spec2Model ----
(***************************************************************************)
(* The task list of src/src/App.tsx as a state machine.                    *)
(*                                                                         *)
(* The App component keeps the collection in one React state cell.  Event  *)
(* handlers are closures of the last committed render: addTask and         *)
(* toggleTask compute the next collection from the `tasks` of that render, *)
(* deleteTask, handleDragEnd and both timers pass an updater that is       *)
(* applied to the current value of the cell.  A click, submit or drop is   *)
(* rendered (and the persist effect run) before the next event; an update  *)
(* made by a timer is rendered by a later scheduler task, so an event can  *)
(* be delivered between a timer and its render.                            *)
(*                                                                         *)
(* ids are decimal strings of integers in the source (Date.now().toString()*)
(* and '1'..'4'); toString is injective, so the model keeps the integers.  *)
(* A text is a sequence of symbols, " " being white space.                 *)
(***************************************************************************)
EXTENDS Integers, Sequences, FiniteSets, TLC

VARIABLES
    tasks,      \* the value of the React state cell `tasks`
    rendered,   \* the `tasks` of the last committed render (what handlers close over)
    dirty,      \* a timer's update has not been rendered yet
    stored,     \* localStorage['tasks']
    timers,     \* pending setTimeout callbacks, in firing order
    now,        \* Date.now()
    drag,       \* the id of the row being dragged, or Null
    crashed,    \* an exception left the component tree unmounted
    budget,     \* events still allowed in this run (bounds the model)
    last        \* the last event delivered and its inputs

vars == <<tasks, rendered, dirty, stored, timers, now, drag, crashed, budget, last>>

----------------------------------------------------------------------------
(* Bounds of the model *)

(* user events, clock ticks and reloads of one run *)
MaxEvents == 3

(* the same, for a run checked for what eventually happens *)
MaxLiveEvents == 2

(* the same, for a run of submits and drags alone *)
MaxReorderEvents == 4

(* the same, for a run of submits and deletes alone *)
MaxDeleteEvents == 4

(* Date.now() when the page is opened: any value far above the default ids *)
BaseTime == 1000

(* The delay of both setTimeout calls *)
AnimationDelay == 300

----------------------------------------------------------------------------
(* Values *)

(* no id: event.over is null, nothing is dragged *)
Null == 0
Undefined == "undefined"

Categories == {"physical", "mental", "spiritual", "chores"}

Task(id, text, completed, category, isNew, isDeleting) ==
    [id |-> id, text |-> text, completed |-> completed, category |-> category,
     isNew |-> isNew, isDeleting |-> isDeleting]

defaultTasks ==
    << Task(1, <<"Morning workout">>, FALSE, "physical", Undefined, Undefined),
       Task(2, <<"Meditation">>, FALSE, "spiritual", Undefined, Undefined),
       Task(3, <<"Read for 30 minutes">>, FALSE, "mental", Undefined, Undefined),
       Task(4, <<"Make the bed">>, FALSE, "chores", Undefined, Undefined) >>

(* What the form can hold when it is submitted *)
NewTexts == { <<>>, <<" ">>, <<" ", "a">> }
NewCategories == {"physical", "chores"}

Min(a, b) == IF a < b THEN a ELSE b
Max(a, b) == IF a > b THEN a ELSE b

Ids(items) == { items[i].id : i \in 1..Len(items) }

----------------------------------------------------------------------------
(* String.prototype.trim *)

RECURSIVE TrimStart(_)
TrimStart(s) ==
    IF s # <<>> /\ Head(s) = " " THEN TrimStart(Tail(s)) ELSE s

RECURSIVE TrimEnd(_)
TrimEnd(s) ==
    IF s # <<>> /\ s[Len(s)] = " " THEN TrimEnd(SubSeq(s, 1, Len(s) - 1)) ELSE s

(* defect variant: the text is tested as typed, white space included *)
TrimOmitted(s) == s

Trim(s) == TrimEnd(TrimStart(s))

----------------------------------------------------------------------------
(* JSON.stringify / JSON.parse of the collection.  A stored object is a    *)
(* record with the keys that were written: stringify omits a key whose     *)
(* value is undefined, and reading a key that is not there gives undefined.*)

Truthy(v) == v = "true"

RequiredKeys == {"id", "text", "completed", "category"}
OptionalKeys == {"isNew", "isDeleting"}

StringifyTask(t) ==
    [k \in RequiredKeys \cup {o \in OptionalKeys : t[o] # Undefined} |-> t[k]]

ParseTask(o) ==
    [k \in RequiredKeys \cup OptionalKeys |-> IF k \in DOMAIN o THEN o[k] ELSE Undefined]

Stringify(items) == [kind |-> "array", val |-> [i \in 1..Len(items) |-> StringifyTask(items[i])]]

NotDeleting(t) == ~Truthy(t.isDeleting)

(* the effect of lines 124-126; the defect variant saves the collection    *)
(* without the filter                                                      *)
PersistUnfiltered(items) == Stringify(items)

Persist(items) == Stringify(SelectSeq(items, NotDeleting))

(* getItem gives null or the empty string: both are falsy on line 117 *)
StoredAbsent == [kind |-> "absent", val |-> <<>>]
StoredMalformed == [kind |-> "malformed", val |-> <<>>]
StoredNonArray == [kind |-> "nonarray", val |-> <<>>]

(* the useState initializer: the collection, or a crash *)
Initialize(s) ==
    CASE s.kind = "absent" -> [crashed |-> FALSE, tasks |-> defaultTasks]
      [] s.kind = "array" -> [crashed |-> FALSE, tasks |-> [i \in 1..Len(s.val) |-> ParseTask(s.val[i])]]
      [] OTHER -> [crashed |-> TRUE, tasks |-> <<>>]

----------------------------------------------------------------------------
(* Array.prototype.findIndex and splice, with 0-based indices as in the source *)

findIndex(items, id) ==
    IF id \in Ids(items)
    THEN (CHOOSE i \in 1..Len(items) :
             /\ items[i].id = id
             /\ \A j \in 1..(i - 1) : items[j].id # id) - 1
    ELSE -1

(* splice's start: a negative start counts from the end *)
SpliceStart(len, start) ==
    IF start < 0 THEN Max(len + start, 0) ELSE Min(start, len)

(* the elements splice(start, count) removes, and what it leaves *)
SpliceRemoved(items, start, count) ==
    LET s == SpliceStart(Len(items), start)
    IN  SubSeq(items, s + 1, Min(s + count, Len(items)))

SpliceRest(items, start, count) ==
    LET s == SpliceStart(Len(items), start)
    IN  SubSeq(items, 1, s) \o SubSeq(items, Min(s + count, Len(items)) + 1, Len(items))

(* splice(start, 0, x) *)
SpliceInsert(items, start, x) ==
    LET s == SpliceStart(Len(items), start)
    IN  SubSeq(items, 1, s) \o <<x>> \o SubSeq(items, s + 1, Len(items))

----------------------------------------------------------------------------
(* The updates of the collection *)

(* line 138-145: the task addTask builds, and the collection it sets *)
NewTask(text, category, clock) ==
    Task(clock, text, FALSE, category, "true", Undefined)

AppendTask(snapshot, text, category, clock) ==
    Append(snapshot, NewTask(text, category, clock))

(* line 150-152: the isNew-clear timer's updater; the defect variant        *)
(* builds the task anew and loses the deleting flag                        *)
ClearNewRebuilt(current, id) ==
    LET F(t) == IF t.id = id
                THEN Task(t.id, t.text, t.completed, t.category, "false", Undefined)
                ELSE t
    IN  [i \in 1..Len(current) |-> F(current[i])]

ClearNew(current, id) ==
    LET F(t) == IF t.id = id THEN [t EXCEPT !.isNew = "false"] ELSE t
    IN  [i \in 1..Len(current) |-> F(current[i])]

(* line 158-160: the collection toggleTask sets *)
ToggleCompleted(snapshot, taskId) ==
    LET F(t) == IF t.id = taskId THEN [t EXCEPT !.completed = ~t.completed] ELSE t
    IN  [i \in 1..Len(snapshot) |-> F(snapshot[i])]

(* line 164-168: deleteTask's updater *)
MarkDeleting(current, taskId) ==
    LET F(t) == IF t.id = taskId THEN [t EXCEPT !.isDeleting = "true"] ELSE t
    IN  [i \in 1..Len(current) |-> F(current[i])]

(* defect variant: the filter keeps the task it should drop *)
RemoveTaskInverted(current, taskId) ==
    LET Keep(t) == t.id = taskId
    IN  SelectSeq(current, Keep)

(* line 171: the removal timer's updater *)
RemoveTask(current, taskId) ==
    LET Keep(t) == t.id # taskId
    IN  SelectSeq(current, Keep)

(* the list shown under a category heading (line 273) *)
categoryTasks(items, category) ==
    SelectSeq(items, LAMBDA t : t.category = category)

(* line 179-188: handleDragEnd's updater.  With no element to move,       *)
(* movedItem is undefined and the array it returns holds undefined.        *)
MoveHasItem(items, activeId) ==
    SpliceRemoved(items, findIndex(items, activeId), 1) # <<>>

(* defect variant: the target index is corrected for the removal, so a   *)
(* source moved down lands one place before the target's index            *)
MoveItemsShifted(items, activeId, overId) ==
    LET oldIndex == findIndex(items, activeId)
        newIndex == findIndex(items, overId)
        movedItem == SpliceRemoved(items, oldIndex, 1)[1]
        newItems == SpliceRest(items, oldIndex, 1)
    IN  SpliceInsert(newItems, IF oldIndex < newIndex THEN newIndex - 1 ELSE newIndex,
                     movedItem)

MoveItems(items, activeId, overId) ==
    LET oldIndex == findIndex(items, activeId)
        newIndex == findIndex(items, overId)
        movedItem == SpliceRemoved(items, oldIndex, 1)[1]
        newItems == SpliceRest(items, oldIndex, 1)
    IN  SpliceInsert(newItems, newIndex, movedItem)

(* the timers' updaters by kind *)
TimerUpdate(current, timer) ==
    IF timer.kind = "clearNew"
    THEN ClearNew(current, timer.id)
    ELSE RemoveTask(current, timer.id)

Timer(kind, id, clock) == [kind |-> kind, id |-> id, due |-> clock + AnimationDelay]

----------------------------------------------------------------------------
(* The state machine *)

Event(op, id, over, text, category) ==
    [op |-> op, id |-> id, over |-> over, text |-> text, category |-> category]

(* What the storage key can hold when the page is opened: nothing, text    *)
(* that is not the program's, or a value an earlier session wrote.         *)
InitialStorage ==
    { StoredAbsent, StoredMalformed, StoredNonArray,
      Persist(<<>>),
      Persist(<< Task(2, <<"Meditation">>, TRUE, "spiritual", Undefined, Undefined),
                 Task(900, <<"b">>, FALSE, "chores", "true", Undefined) >>) }

(* one more event of the run *)
Spend ==
    /\ budget > 0
    /\ budget' = budget - 1

(* A render of the App component and its persist effect.  The render that *)
(* follows an event also shows the timer updates that were still waiting.  *)
Commit(items) ==
    /\ rendered' = items
    /\ stored' = Persist(items)
    /\ dirty' = FALSE

InitWith(events) ==
    \E s \in InitialStorage :
        LET i == Initialize(s)
        IN  /\ tasks = i.tasks
            /\ rendered = i.tasks
            /\ crashed = i.crashed
            /\ stored = IF i.crashed THEN s ELSE Persist(i.tasks)
            /\ dirty = FALSE
            /\ timers = <<>>
            /\ now = BaseTime
            /\ drag = Null
            /\ budget = events
            /\ last = Event("init", 0, 0, <<>>, s.kind)

Init == InitWith(MaxEvents)

(* the form is submitted *)
AddTask(text, category) ==
    /\ ~crashed
    /\ Spend
    /\ last' = Event("addTask", now, 0, text, category)
    /\ IF Trim(text) # <<>>
       THEN /\ tasks' = AppendTask(rendered, text, category, now)
            /\ Commit(tasks')
            /\ timers' = Append(timers, Timer("clearNew", now, now))
            /\ UNCHANGED <<now, drag, crashed>>
       ELSE UNCHANGED <<tasks, rendered, dirty, stored, timers, now, drag, crashed>>

(* the completion button of a rendered row is clicked *)
ToggleTask(taskId) ==
    /\ ~crashed
    /\ taskId \in Ids(rendered)
    /\ Spend
    /\ last' = Event("toggleTask", taskId, 0, <<>>, "")
    /\ tasks' = ToggleCompleted(rendered, taskId)
    /\ Commit(tasks')
    /\ UNCHANGED <<timers, now, drag, crashed>>

(* the delete of a rendered row is confirmed *)
DeleteTask(taskId) ==
    /\ ~crashed
    /\ taskId \in Ids(rendered)
    /\ Spend
    /\ last' = Event("deleteTask", taskId, 0, <<>>, "")
    /\ tasks' = MarkDeleting(tasks, taskId)
    /\ Commit(tasks')
    /\ timers' = Append(timers, Timer("remove", taskId, now))
    /\ UNCHANGED <<now, drag, crashed>>

(* a rendered row is picked up *)
DragStart(taskId) ==
    /\ ~crashed
    /\ drag = Null
    /\ taskId \in Ids(rendered)
    /\ Spend
    /\ drag' = taskId
    /\ last' = Event("dragStart", taskId, 0, <<>>, "")
    /\ UNCHANGED <<tasks, rendered, dirty, stored, timers, now, crashed>>

(* the row is dropped: over a rendered row, or over nothing *)
HandleDragEnd(over) ==
    /\ ~crashed
    /\ drag # Null
    /\ over \in Ids(rendered) \cup {Null}
    /\ drag' = Null
    /\ last' = Event("dragEnd", drag, over, <<>>, "")
    /\ IF over # Null /\ drag # over
       THEN IF MoveHasItem(tasks, drag)
            THEN /\ tasks' = MoveItems(tasks, drag, over)
                 /\ Commit(tasks')
                 /\ UNCHANGED <<timers, crashed>>
            ELSE /\ crashed' = TRUE
                 /\ tasks' = <<>>
                 /\ timers' = <<>>
                 /\ UNCHANGED <<rendered, dirty, stored>>
       ELSE UNCHANGED <<tasks, rendered, dirty, stored, timers, crashed>>
    /\ UNCHANGED <<now, budget>>

(* a millisecond passes *)
Tick ==
    /\ ~crashed
    /\ Spend
    /\ now' = now + 1
    /\ last' = Event("tick", 0, 0, <<>>, "")
    /\ UNCHANGED <<tasks, rendered, dirty, stored, timers, drag, crashed>>

(* time passes until the next timer is due *)
Elapse ==
    /\ ~crashed
    /\ timers # <<>>
    /\ Head(timers).due > now
    /\ now' = Head(timers).due
    /\ last' = Event("elapse", 0, 0, <<>>, "")
    /\ UNCHANGED <<tasks, rendered, dirty, stored, timers, drag, crashed, budget>>

(* the timer that is due runs its callback; its update waits for a render *)
FireTimer ==
    /\ ~crashed
    /\ timers # <<>>
    /\ Head(timers).due <= now
    /\ tasks' = TimerUpdate(tasks, Head(timers))
    /\ timers' = Tail(timers)
    /\ dirty' = TRUE
    /\ last' = Event("timer", Head(timers).id, 0, <<>>, Head(timers).kind)
    /\ UNCHANGED <<rendered, stored, now, drag, crashed, budget>>

(* the scheduled render of a timer's update *)
Render ==
    /\ ~crashed
    /\ dirty
    /\ Commit(tasks)
    /\ last' = Event("render", 0, 0, <<>>, "")
    /\ UNCHANGED <<tasks, timers, now, drag, crashed, budget>>

(* the page is closed and opened again *)
Reload ==
    /\ ~crashed
    /\ Spend
    /\ LET i == Initialize(stored)
       IN  /\ tasks' = i.tasks
           /\ crashed' = i.crashed
           /\ IF i.crashed
              THEN UNCHANGED <<stored>> /\ rendered' = i.tasks /\ dirty' = FALSE
              ELSE Commit(i.tasks)
    /\ timers' = <<>>
    /\ drag' = Null
    /\ last' = Event("reload", 0, 0, <<>>, stored.kind)
    /\ UNCHANGED <<now>>

UserEvent ==
    \/ \E text \in NewTexts, category \in NewCategories : AddTask(text, category)
    \/ \E taskId \in Ids(rendered) : ToggleTask(taskId)
    \/ \E taskId \in Ids(rendered) : DeleteTask(taskId)
    \/ \E taskId \in Ids(rendered) : DragStart(taskId)
    \/ \E over \in Ids(rendered) \cup {Null} : HandleDragEnd(over)

Next ==
    \/ UserEvent
    \/ Tick
    \/ Elapse
    \/ FireTimer
    \/ Render
    \/ Reload

Spec == Init /\ [][Next]_vars

(* One session of the page, in which time passes and a due timer runs *)
NextSession ==
    \/ UserEvent
    \/ Tick
    \/ Elapse
    \/ FireTimer
    \/ Render

InitLive == InitWith(MaxLiveEvents)

LiveSpec ==
    InitLive /\ [][NextSession]_vars /\ WF_vars(Elapse) /\ WF_vars(FireTimer)

(* One session in which the user only submits the form and drags rows *)
InitReorder == InitWith(MaxReorderEvents)

NextReorder ==
    \/ \E text \in NewTexts, category \in NewCategories : AddTask(text, category)
    \/ \E taskId \in Ids(rendered) : DragStart(taskId)
    \/ \E over \in Ids(rendered) \cup {Null} : HandleDragEnd(over)
    \/ Elapse
    \/ FireTimer
    \/ Render

SpecReorder == InitReorder /\ [][NextReorder]_vars

(* sessions of submits and confirmed deletes only, with a larger event budget *)
InitDelete == InitWith(MaxDeleteEvents)

NextDelete ==
    \/ \E text \in NewTexts, category \in NewCategories : AddTask(text, category)
    \/ \E taskId \in Ids(rendered) : DeleteTask(taskId)
    \/ Elapse
    \/ FireTimer
    \/ Render

SpecDelete == InitDelete /\ [][NextDelete]_vars

(* whole sessions, reloads included, with timers that eventually fire *)
LiveSpecReload ==
    InitLive /\ [][Next]_vars /\ WF_vars(Elapse) /\ WF_vars(FireTimer)

----------------------------------------------------------------------------
(* Properties *)

StoredIds == { stored.val[i].id : i \in 1..Len(stored.val) }

(* the ids a task of the model can have *)
IdUniverse ==
    Ids(defaultTasks) \cup {900}
        \cup { BaseTime + k * AnimationDelay + j : k \in 0..MaxEvents, j \in 0..MaxEvents }

(* C1: no stored record is flagged deleting, and while a task flagged      *)
(* deleting is in the collection (the delay after SoftDelete) the stored   *)
(* sequence holds no record with its id.                                   *)
C1_DeletedNeverStored ==
    /\ \A i \in 1..Len(stored.val) :
          "isDeleting" \in DOMAIN stored.val[i] => ~Truthy(stored.val[i].isDeleting)
    /\ \A i \in 1..Len(tasks) :
          Truthy(tasks[i].isDeleting) => tasks[i].id \notin StoredIds

(* C3: no two tasks of the collection have the same id. *)
C3_UniqueIds ==
    \A i, j \in 1..Len(tasks) : i # j => tasks[i].id # tasks[j].id

(* C10: startup never fails: with the key absent or its value unparseable  *)
(* the collection is the four default tasks, and with a parseable value it *)
(* is the stored sequence.                                                 *)
C10_InitializeNeverFails ==
    last.op \in {"init", "reload"} =>
        /\ ~crashed
        /\ last.category \in {"absent", "malformed"} => tasks = defaultTasks
        /\ last.category = "array" => tasks = [i \in 1..Len(stored.val) |-> ParseTask(stored.val[i])]

(* the first position of an id in a collection, counted from 1 *)
PositionOf(items, id) == findIndex(items, id) + 1

(* a collection without the element at position p *)
WithoutPosition(items, p) ==
    SubSeq(items, 1, p - 1) \o SubSeq(items, p + 1, Len(items))

(* C2: once the removal timer of an id is scheduled, the collection        *)
(* eventually holds no task with that id, whatever is interleaved.         *)
RemovalPending(id) ==
    \E i \in 1..Len(timers) : timers[i].kind = "remove" /\ timers[i].id = id

C2_DeletedEventuallyRemoved ==
    \A id \in IdUniverse : RemovalPending(id) ~> (id \notin Ids(tasks))

C2_Witness ==
    /\ last.op = "timer"
    /\ last.category = "remove"
    /\ last.id \notin Ids(tasks)
    /\ tasks # <<>>
    /\ \E i \in 1..Len(tasks) : tasks[i].id >= BaseTime

(* a text that is empty or all white space *)
IsBlank(text) == \A i \in 1..Len(text) : text[i] = " "

(* C4: a Create with text that is not blank lengthens the collection by    *)
(* one; the new task is last, with completed = false, the given category   *)
(* and text and isNew = true; the tasks already there keep their place and *)
(* their values.                                                           *)
C4_CreateAppendsOne ==
    [][ (last'.op = "addTask" /\ ~IsBlank(last'.text)) =>
            /\ Len(tasks') = Len(tasks) + 1
            /\ tasks'[Len(tasks')].completed = FALSE
            /\ tasks'[Len(tasks')].category = last'.category
            /\ tasks'[Len(tasks')].text = last'.text
            /\ tasks'[Len(tasks')].isNew = "true"
            /\ \A i \in 1..Len(tasks) : tasks'[i] = tasks[i] ]_vars

(* C5: a Create with empty or blank text changes neither the collection    *)
(* nor the storage and schedules no timer.                                 *)
C5_BlankCreateIsNoOp ==
    [][ (last'.op = "addTask" /\ IsBlank(last'.text)) =>
            UNCHANGED <<tasks, rendered, stored, timers>> ]_vars

C5_Witness ==
    /\ last.op = "addTask"
    /\ last.text = <<" ">>
    /\ timers # <<>>
    /\ Len(tasks) > Len(defaultTasks)

(* C6: one ToggleComplete(id) flips completed of the tasks with that id    *)
(* and changes nothing else, and a second one in succession gives back the *)
(* collection the first started from.                                      *)
C6_ToggleIsInvolution ==
    [][ last'.op = "toggleTask" =>
            /\ Len(tasks') = Len(tasks)
            /\ \A i \in 1..Len(tasks) :
                  tasks'[i] = IF tasks[i].id = last'.id
                              THEN [tasks[i] EXCEPT !.completed = ~tasks[i].completed]
                              ELSE tasks[i]
            /\ ToggleCompleted(tasks', last'.id) = tasks ]_vars

(* C7: a Reorder with both ids in the collection and different puts the    *)
(* source at the index the target held and leaves the other tasks in their *)
(* order, whatever their categories.                                       *)
ReorderApplies(items, e) ==
    /\ e.op = "dragEnd"
    /\ e.over # Null
    /\ e.id # e.over
    /\ e.id \in Ids(items)
    /\ e.over \in Ids(items)

C7_ReorderMovesSource ==
    [][ ReorderApplies(tasks, last') =>
            LET o == PositionOf(tasks, last'.id)
                n == PositionOf(tasks, last'.over)
            IN  /\ Len(tasks') = Len(tasks)
                /\ tasks'[n] = tasks[o]
                /\ WithoutPosition(tasks', n) = WithoutPosition(tasks, o) ]_vars

C7_Witness ==
    /\ ReorderApplies(tasks, last)
    /\ Len(tasks) >= 4
    /\ LET n == PositionOf(tasks, last.id)
       IN  /\ n < Len(tasks)
           /\ tasks[n + 1].id = last.over
           /\ tasks[n + 1].category # tasks[n].category
           /\ n > 1

(* C8: a Reorder with an id that is not in the collection, or with equal   *)
(* ids, or dropped over nothing, leaves the collection as it is.           *)
C8_ReorderNoOp ==
    [][ (last'.op = "dragEnd" /\ ~ReorderApplies(tasks, last')) =>
            tasks' = tasks ]_vars

(* C9: Reorder(a, b) followed by Reorder(a, c), c being the id of the task *)
(* that then sits at the index a held, gives back the original order.      *)
ReorderResult(items, activeId, overId) ==
    IF activeId # overId THEN MoveItems(items, activeId, overId) ELSE items

C9_ReorderRoundTrip ==
    [][ ReorderApplies(tasks, last') =>
            LET o == PositionOf(tasks, last'.id)
            IN  ReorderResult(tasks', last'.id, tasks'[o].id) = tasks ]_vars

(* the id, text, completed and category of each task, in order *)
Core(items) ==
    [i \in 1..Len(items) |->
        [id |-> items[i].id, text |-> items[i].text,
         completed |-> items[i].completed, category |-> items[i].category]]

(* C11: saving a collection and loading it again gives the tasks that are  *)
(* not flagged deleting, in the same order, with the same id, text,        *)
(* completed and category; and what is stored is the last rendered         *)
(* collection saved in that way.                                           *)
SaveThenLoad(items) == Initialize(Persist(items))

RoundTrips(items) ==
    LET loaded == SaveThenLoad(items)
    IN  /\ ~loaded.crashed
        /\ Core(loaded.tasks) = Core(SelectSeq(items, NotDeleting))

C11_SaveLoadRoundTrip ==
    ~crashed =>
        /\ RoundTrips(tasks)
        /\ LET loaded == Initialize(stored)
           IN  /\ ~loaded.crashed
               /\ Core(loaded.tasks) = Core(SelectSeq(rendered, NotDeleting))

C11_Witness ==
    /\ last.op = "reload"
    /\ Len(tasks) = 3
    /\ Ids(tasks) \subseteq Ids(defaultTasks)
    /\ \E i \in 1..Len(tasks) : tasks[i].completed

(* C12: every record written to storage has the keys id, text, completed   *)
(* and category and no other, so no task loaded from storage has           *)
(* isNew = true.                                                           *)
C12_StoredKeysOnly ==
    [][ (stored' # stored) =>
            /\ \A i \in 1..Len(stored'.val) : DOMAIN stored'.val[i] = RequiredKeys
            /\ \A i \in 1..Len(Initialize(stored').tasks) :
                  ~Truthy(Initialize(stored').tasks[i].isNew) ]_vars

(* C13: a delete of an id that no task has, or whose task is already       *)
(* flagged deleting, leaves the collection as it is, leaves storage the    *)
(* mirror of that collection, and leaves the timers already scheduled in   *)
(* place.                                                                  *)
AlreadyDeleting(items, id) ==
    \E i \in 1..Len(items) : items[i].id = id /\ Truthy(items[i].isDeleting)

C13_RepeatedDeleteNoOp ==
    [][ (last'.op = "deleteTask" /\ (last'.id \notin Ids(tasks) \/ AlreadyDeleting(tasks, last'.id))) =>
            /\ tasks' = tasks
            /\ stored' = Persist(tasks)
            /\ Len(timers') >= Len(timers)
            /\ \A k \in 1..Len(timers) : timers'[k] = timers[k] ]_vars

(* C14: a task created in this run with isNew = true eventually has the    *)
(* flag cleared or is removed, given that time passes and due timers fire. *)
CreatedIds == BaseTime..(BaseTime + MaxLiveEvents)

MarkedNew(id) ==
    \E i \in 1..Len(tasks) : tasks[i].id = id /\ Truthy(tasks[i].isNew)

C14_NewEventuallyCleared ==
    \A id \in CreatedIds : MarkedNew(id) ~> ~MarkedNew(id)

(* C15: when an event is handled, storage holds the collection as it then  *)
(* is, without the tasks flagged deleting: same order, same id, text,      *)
(* completed and category.                                                 *)
EventOps == {"addTask", "toggleTask", "deleteTask", "dragStart", "dragEnd", "reload"}

Mirrors ==
    /\ stored.kind = "array"
    /\ Core(stored.val) = Core(SelectSeq(tasks, NotDeleting))

C15_StorageMirrorsStore ==
    [][ (~crashed /\ last'.op \in EventOps) => Mirrors ]_vars

(* C16: a timer whose id no task has leaves the collection as it is, and a *)
(* removal timer takes out only tasks that its delete flagged: the tasks   *)
(* with other ids stay, in order and unaltered.                            *)
C16_TimerFrame ==
    [][ last'.op = "timer" =>
            /\ (last'.id \notin Ids(tasks) => tasks' = tasks)
            /\ (last'.category = "remove" =>
                  /\ tasks' = SelectSeq(tasks, LAMBDA t : t.id # last'.id)
                  /\ \A i \in 1..Len(tasks) :
                        tasks[i].id = last'.id => Truthy(tasks[i].isDeleting)) ]_vars

(* C17: every submit and every toggle is applied to the collection as the  *)
(* earlier events and timers left it, so no timer's update is overwritten  *)
(* and no id that a timer removed comes back.                              *)
C17_NoLostUpdate ==
    [][ /\ (last'.op = "toggleTask" => tasks' = ToggleCompleted(tasks, last'.id))
        /\ ((last'.op = "addTask" /\ ~IsBlank(last'.text)) =>
                tasks' = AppendTask(tasks, last'.text, last'.category, last'.id))
        /\ (last'.op \in {"toggleTask", "addTask"} =>
                Ids(tasks') \subseteq Ids(tasks) \cup {last'.id}) ]_vars

(* C18: no step but a load changes the id, text or category of a task, and *)
(* a toggle leaves every task as it was but for the completed flag of the  *)
(* tasks with the toggled id.                                              *)
Descriptions(items) ==
    { <<items[i].id, items[i].text, items[i].category>> : i \in 1..Len(items) }

Submitted(e) ==
    IF e.op = "addTask" /\ ~IsBlank(e.text) THEN { <<e.id, e.text, e.category>> } ELSE {}

C18_ToggleFrame ==
    [][ /\ (last'.op # "reload" =>
                Descriptions(tasks') \subseteq
                    Descriptions(tasks) \cup Descriptions(rendered) \cup Submitted(last'))
        /\ (last'.op = "toggleTask" =>
                /\ Len(tasks') = Len(tasks)
                /\ \A i \in 1..Len(tasks) :
                      tasks'[i] = [tasks[i] EXCEPT !.completed =
                                      IF tasks[i].id = last'.id THEN ~@ ELSE @]) ]_vars

(* C19: when the dragged id and the target id are both shown under one     *)
(* category, the drag moves the dragged task, within that category's list, *)
(* to the place the target held there, and leaves every other category's   *)
(* list as it was.                                                         *)
SharedCategories(items, e) ==
    { c \in Categories : {e.id, e.over} \subseteq Ids(categoryTasks(items, c)) }

C19_ReorderWithinCategory ==
    [][ ReorderApplies(tasks, last') =>
            \A c \in SharedCategories(tasks, last') :
                LET before == categoryTasks(tasks, c)
                    after == categoryTasks(tasks', c)
                    o == PositionOf(before, last'.id)
                    n == PositionOf(before, last'.over)
                IN  /\ Len(after) = Len(before)
                    /\ after[n] = before[o]
                    /\ WithoutPosition(after, n) = WithoutPosition(before, o)
                    /\ \A d \in Categories \ {c} :
                          categoryTasks(tasks', d) = categoryTasks(tasks, d) ]_vars

(* C20: a task flagged deleting is never unflagged: from one state to the  *)
(* next the number of unflagged tasks of its description grows only by a   *)
(* task just submitted (or by a load), and likewise the number of stored   *)
(* records of that description.                                            *)
Description(t) == <<t.id, t.text, t.category>>

FlaggedDescriptions(items) ==
    { Description(items[i]) : i \in { j \in 1..Len(items) : Truthy(items[j].isDeleting) } }

Unflagged(items, d) ==
    Cardinality({ i \in 1..Len(items) : Description(items[i]) = d /\ ~Truthy(items[i].isDeleting) })

StoredCount(s, d) ==
    Cardinality({ i \in 1..Len(s.val) : Description(s.val[i]) = d })

Allowance(e, d) == IF d \in Submitted(e) THEN 1 ELSE 0

C20_DeletingIsIrreversible ==
    [][ ~crashed' =>
            \A d \in FlaggedDescriptions(tasks) :
                /\ (last'.op # "reload" =>
                        Unflagged(tasks', d) <= Unflagged(tasks, d) + Allowance(last', d))
                /\ StoredCount(stored', d) <= StoredCount(stored, d) + Allowance(last', d) ]_vars

C20_Witness ==
    /\ last.op = "timer"
    /\ last.category = "clearNew"
    /\ \E i \in 1..Len(tasks) :
          /\ tasks[i].id = last.id
          /\ Truthy(tasks[i].isDeleting)
          /\ tasks[i].isNew = "false"

====
